---- MODULE Spec2Model ----
(***************************************************************************)
(* A model of the Telegram group assistant: the conversation store         *)
(* (database_service.py, models.py), the message router and intent         *)
(* dispatcher (main.py) and the language-model gateway (gemini_service.py).*)
(* Every handler is a task that advances one await at a time, so that      *)
(* tasks interleave exactly where the event loop may switch between them.  *)
(***************************************************************************)
EXTENDS Integers, Sequences, FiniteSets, TLC

(***************************************************************************)
(* Bounds of the model.                                                    *)
(***************************************************************************)
\* handlers and direct store calls per behaviour
MaxTasks == 3
\* updates (messages, commands, callbacks) the router receives per behaviour
MaxUpdates == 2
\* storage / transport / provider failures injected per behaviour
MaxFaults == 1
\* entries of a context handed to the gateway directly
MaxContext == 8

(***************************************************************************)
(* Configuration (config.py) and the identities the environment supplies.  *)
(***************************************************************************)
Groups == {"g1", "g2"}
PrivateChat == "pv"
Chats == Groups \cup {PrivateChat}
UserIds == {"u1", "u2"}
BotId == "bot"

\* config.bot_username and the first name Telegram's get_me reports
bot_username == <<"b", "o">>
bot_first_name == <<"H", "u">>
\* config.gemini_model, default_temperature (in tenths), default_tone,
\* context_messages_count
config_gemini_model == "gemini-2.5-flash"
config_default_temperature == 7
config_default_tone == "friendly"
config_context_messages_count == 7
\* the temperature analyze_intent and summarize_conversation pass (tenths)
IntentTemperature == 3
\* _handle_summarize: intent_analysis.get("message_count", 20)
DefaultSummaryCount == 20
\* _build_context_string: context_messages[-7:]
ContextCap == 7

(***************************************************************************)
(* Strings are sequences of one-character strings.                         *)
(***************************************************************************)
Min(a, b) == IF a < b THEN a ELSE b
Max(a, b) == IF a < b THEN b ELSE a

\* str.lower() on the alphabet the model's texts are written in
LowerChar(c) ==
  CASE c = "B" -> "b" [] c = "O" -> "o" [] c = "H" -> "h" [] c = "U" -> "u"
    [] c = "X" -> "x" [] OTHER -> c
lower(s) == [i \in 1..Len(s) |-> LowerChar(s[i])]

\* Python's `needle in hay` for strings
contains(needle, hay) ==
  \E i \in 0..(Len(hay) - Len(needle)) :
    \A j \in 1..Len(needle) : hay[i + j] = needle[j]

\* Python's text[offset:offset + length] (0-based, clipped to the text)
slice(text, offset, length) ==
  SubSeq(text, Min(offset, Len(text)) + 1, Min(offset + length, Len(text)))

\* the last n elements of a sequence, s[-n:] for n >= 1
LastN(s, n) == SubSeq(s, Max(1, Len(s) - n + 1), Len(s))

Reverse(s) == [i \in 1..Len(s) |-> s[Len(s) + 1 - i]]


(***************************************************************************)
(* Texts.  A text is a record: a user's message carries its characters,   *)
(* a string the bot produces carries its kind and the values it echoes.   *)
(***************************************************************************)
UserText(chars) == [kind |-> "user", chars |-> chars, a |-> "", b |-> ""]
BotText(kind, a, b) == [kind |-> kind, chars |-> <<>>, a |-> a, b |-> b]
NoText == BotText("none", "", "")

VARIABLES
  users,              \* table users: set of User rows
  user_info,          \* table user_info: set of UserInfo rows
  group_settings,     \* table group_settings: set of GroupSettings rows
  conversation_logs,  \* table conversation_logs, in insertion order
  chat,               \* Telegram's messages per chat: chat[c][message_id]
  task,               \* the handlers in flight and finished
  faults              \* failures injected so far

vars == <<users, user_info, group_settings, conversation_logs, chat, task, faults>>
store == <<users, user_info, group_settings, conversation_logs>>

Tasks == 1..MaxTasks

(***************************************************************************)
(* The conversation store (database_service.py, models.py).                *)
(***************************************************************************)
\* select(User).where(User.telegram_id == telegram_id)
UsersByTelegramId(telegram_id) == {u \in users : u.telegram_id = telegram_id}
\* select(User).where(User.username == username)
UsersByUsername(username) == {u \in users : u.username = username}
\* select(UserInfo).where(and_(UserInfo.user_id == id, UserInfo.key == key))
InfoRows(id, key) == {i \in user_info : i.user_id = id /\ i.key = key}
\* select(GroupSettings).where(GroupSettings.group_id == group_id)
SettingsRows(group_id) == {s \in group_settings : s.group_id = group_id}

\* result.scalar_one_or_none(): None, the row, or MultipleResultsFound
scalar_one_or_none(rows) ==
  IF rows = {} THEN "none" ELSE IF Cardinality(rows) = 1 THEN "one" ELSE "raise"
TheRow(rows) == CHOOSE r \in rows : TRUE

\* User(telegram_id=..., username=..., first_name=...) with the next primary key
User(telegram_id, username, first_name) ==
  [id |-> Cardinality(users) + 1, telegram_id |-> telegram_id,
   username |-> username, first_name |-> first_name]
NoUser == [id |-> 0, telegram_id |-> "", username |-> "", first_name |-> ""]

\* get_or_create_user, the branch that found the user: a field is replaced
\* when a value is provided and differs
UpdatedUser(user, username, first_name) ==
  [user EXCEPT
     !.username = IF username # "" /\ user.username # username THEN username ELSE @,
     !.first_name = IF first_name # "" /\ user.first_name # first_name
                    THEN first_name ELSE @]

\* UserInfo(user_id=user.id, key=key, value=value) with the next primary key
UserInfo(user_id, key, value) ==
  [id |-> Cardinality(user_info) + 1, user_id |-> user_id, key |-> key, value |-> value]
NoInfo == [id |-> 0, user_id |-> 0, key |-> "", value |-> ""]

\* GroupSettings(...) as get_group_settings creates it; is_active takes the
\* column default
GroupSettings(group_id) ==
  [group_id |-> group_id, gemini_model |-> config_gemini_model,
   temperature |-> config_default_temperature, tone |-> config_default_tone,
   context_messages_count |-> config_context_messages_count, is_active |-> TRUE]
NoSettings ==
  [group_id |-> "", gemini_model |-> "", temperature |-> 0, tone |-> "",
   context_messages_count |-> 0, is_active |-> FALSE]

\* ConversationLog(...): the timestamp default is the clock at insertion,
\* which orders rows as they were inserted
ConversationLog(group_id, user_id, message_id, message_text, is_bot_message, is_reply, reply_to_message_id) ==
  [group_id |-> group_id, user_id |-> user_id, message_id |-> message_id,
   message_text |-> message_text, timestamp |-> Len(conversation_logs) + 1,
   is_bot_message |-> is_bot_message, is_reply |-> is_reply,
   reply_to_message_id |-> reply_to_message_id]

\* a variant that keeps one row per group, the latest
log_conversation_latest(logs, entry) ==
  Append(SelectSeq(logs, LAMBDA log : log.group_id # entry.group_id), entry)
\* log_conversation: session.add(log_entry) and the commit
log_conversation(logs, entry) == Append(logs, entry)

\* the join of get_recent_messages: log rows of the group that have a User
\* row with telegram_id = user_id, oldest first
JoinedRows(group_id) ==
  SelectSeq(conversation_logs,
            LAMBDA log : log.group_id = group_id /\ UsersByTelegramId(log.user_id) # {})

\* the dict get_recent_messages builds from a (log, user) pair
MessageDict(log) ==
  LET user == TheRow(UsersByTelegramId(log.user_id))
  IN [message_id |-> log.message_id, user_id |-> log.user_id,
      username |-> IF user.username # "" THEN user.username
                   ELSE IF user.first_name # "" THEN user.first_name ELSE "Unknown",
      message_text |-> log.message_text, timestamp |-> log.timestamp,
      is_bot_message |-> log.is_bot_message, is_reply |-> log.is_reply]

\* a variant that returns the rows as the query orders them, newest first
get_recent_messages_newest_first(group_id, limit) ==
  LET newest_first == Reverse(JoinedRows(group_id))
      rows == SubSeq(newest_first, 1, Min(limit, Len(newest_first)))
  IN [i \in 1..Len(rows) |-> MessageDict(rows[i])]

\* get_recent_messages: order_by(desc(timestamp)).limit(limit), then reversed
get_recent_messages(group_id, limit) ==
  LET joined == JoinedRows(group_id)
      newest_first == Reverse(joined)
      rows == SubSeq(newest_first, 1, Min(limit, Len(newest_first)))
      messages == [i \in 1..Len(rows) |-> MessageDict(rows[i])]
  IN Reverse(messages)

(***************************************************************************)
(* The language-model gateway (gemini_service.py).  The provider's text is *)
(* a sequence of tokens: a code-fence marker, the language tag "json",     *)
(* whitespace, or a payload (a JSON object, another JSON value, or text    *)
(* that is no JSON).                                                       *)
(***************************************************************************)
Payload(kind, intent, key, value, target_username, message_count) ==
  [kind |-> kind, intent |-> intent, key |-> key, value |-> value,
   target_username |-> target_username, message_count |-> message_count]
\* a field the object does not carry is "" (message_count: -1)
NoPayload == Payload("none", "", "", "", "", -1)
Object(intent, key, value, target_username, message_count) ==
  Payload("object", intent, key, value, target_username, message_count)
NonObject == Payload("nonobject", "", "", "", "", -1)
Garbage == Payload("garbage", "", "", "", "", -1)

Tok(t) == [t |-> t, p |-> NoPayload]
PayloadTok(p) == [t |-> "payload", p |-> p]
Fence == Tok("fence")
JsonTag == Tok("jsontag")
Ws == Tok("ws")

RECURSIVE lstrip(_)
lstrip(s) == IF s # <<>> /\ Head(s) = Ws THEN lstrip(Tail(s)) ELSE s
\* str.strip()
strip(s) == Reverse(lstrip(Reverse(lstrip(s))))

\* analyze_intent: the clean-up of the response before json.loads
clean_response(response) ==
  LET a == strip(response)
      \* startswith("```json"): drop the 7 characters
      b == IF Len(a) >= 2 /\ a[1] = Fence /\ a[2] = JsonTag
           THEN SubSeq(a, 3, Len(a)) ELSE a
      \* endswith("```"): drop the 3 characters
      c == IF Len(b) >= 1 /\ b[Len(b)] = Fence THEN SubSeq(b, 1, Len(b) - 1) ELSE b
  IN strip(c)

\* a variant that decodes any text; C16 tells it from the decoder below
json_decodable_any(s) == Len(s) = 1 /\ s[1].t = "payload"

\* json.loads succeeds on exactly one JSON value
json_decodable(s) == Len(s) = 1 /\ s[1].t = "payload" /\ s[1].p.kind \in {"object", "nonobject"}

\* {"intent": "conversation", "response_type": "general"}
FallbackIntent == Object("conversation", "", "", "", -1)

\* analyze_intent, from the text _generate_response returned
parse_intent(response) ==
  IF json_decodable(clean_response(response)) THEN clean_response(response)[1].p
  ELSE FallbackIntent

(***************************************************************************)
(* gemini_service.py: _generate_response, the extraction of the text from  *)
(* the provider's response.  A response is a sequence of candidates, each  *)
(* with a finish reason and the parts of its content; a part's text is a   *)
(* sequence of tokens (empty for a part that carries no text).             *)
(***************************************************************************)
Candidate(finish_reason, parts) == [finish_reason |-> finish_reason, parts |-> parts]
\* the provider call itself failed: generate_content raised
ApiError == [raised |-> TRUE, candidates |-> <<>>]
ProviderResponse(candidates) == [raised |-> FALSE, candidates |-> candidates]

\* `if finish_reason:` and the name of the reason; the unspecified reason
\* has the value 0, for which no name is taken
reason_name(finish_reason) ==
  IF finish_reason = "FINISH_REASON_UNSPECIFIED" THEN "" ELSE finish_reason

\* `text and text.strip()`
HasText(text) == strip(text) # <<>>

\* the texts the gateway returns
ProviderReply(text) == [kind |-> "reply", chars |-> text, a |-> "", b |-> ""]
SafetyApology == BotText("apology_safety", "", "")
LengthApology == BotText("apology_length", "", "")
EmptyApology == BotText("apology_empty", "", "")

RECURSIVE JoinedText(_)
JoinedText(parts) == IF parts = <<>> THEN <<>> ELSE Head(parts) \o JoinedText(Tail(parts))

\* response.text, the quick accessor of the provider's library: it raises
\* ValueError when the first candidate has no parts, and, depending on the
\* library, for a response it does not take as simple text; otherwise it
\* is the text of the first candidate's parts
TextAccessor(response) ==
  {[raised |-> TRUE, text |-> <<>>]}
    \cup (IF response.candidates # <<>> /\ response.candidates[1].parts # <<>>
          THEN {[raised |-> FALSE, text |-> JoinedText(response.candidates[1].parts)]}
          ELSE {})

\* the characters of a text the gateway returned: the provider's own, or an
\* apology, which is a sentence and no JSON
ResponseText(text) == IF text.kind = "reply" THEN text.chars ELSE <<PayloadTok(Garbage)>>

\* all the parts of all the candidates, in order
RECURSIVE AllParts(_)
AllParts(candidates) ==
  IF candidates = <<>> THEN <<>> ELSE Head(candidates).parts \o AllParts(Tail(candidates))
\* the first part that has text, stripped (<<>> when there is none)
RECURSIVE FirstText(_)
FirstText(parts) ==
  IF parts = <<>> THEN <<>>
  ELSE IF HasText(Head(parts)) THEN strip(Head(parts)) ELSE FirstText(Tail(parts))

\* a variant that gives up on a truncated response; C15 tells it from the
\* extraction below
extract_text_strict(response, accessed) ==
  IF response.candidates = <<>> THEN SafetyApology
  ELSE LET name == reason_name(response.candidates[1].finish_reason)
       IN IF name = "SAFETY" THEN SafetyApology
          ELSE IF name = "MAX_TOKENS" THEN LengthApology
          ELSE IF ~accessed.raised /\ HasText(accessed.text)
               THEN ProviderReply(strip(accessed.text))
          ELSE IF FirstText(AllParts(response.candidates)) # <<>>
               THEN ProviderReply(FirstText(AllParts(response.candidates)))
          ELSE EmptyApology

\* _generate_response after the provider call: the text it returns, given
\* what response.text did
extract_text(response, accessed) ==
  IF response.candidates = <<>> THEN SafetyApology
  ELSE LET name == reason_name(response.candidates[1].finish_reason)
       IN IF name = "SAFETY" THEN SafetyApology
          ELSE IF ~accessed.raised /\ HasText(accessed.text)
               THEN ProviderReply(strip(accessed.text))
          \* parts[0] of the first candidate, then every part of every candidate
          ELSE IF FirstText(AllParts(response.candidates)) # <<>>
               THEN ProviderReply(FirstText(AllParts(response.candidates)))
          ELSE IF name = "MAX_TOKENS" THEN LengthApology
          ELSE EmptyApology

\* what the provider call of _generate_response returns: the provider's text
ProviderText(text) == [outcome |-> "text", text |-> text, apology |-> "none"]

\* a call of the provider as _generate_response issues it
Call(op, temperature, tone) ==
  [op |-> op, model |-> config_gemini_model, temperature |-> temperature, tone |-> tone]

\* generate_response: tone_mapping.get(tone, <the friendly persona>)
KnownTones == {"friendly", "professional", "humorous", "serious", "flattering", "casual", "formal"}
persona(tone) == IF tone \in KnownTones THEN tone ELSE "friendly"

\* f"[{timestamp}] {username}: {text}"
ContextLine(msg) ==
  <<"[">> \o msg.timestamp \o <<"]", " ">> \o msg.username \o <<":", " ">> \o msg.message_text
\* "\n".join(context_lines)
RECURSIVE JoinLines(_)
JoinLines(context_lines) ==
  IF context_lines = <<>> THEN <<>>
  ELSE IF Len(context_lines) = 1 THEN context_lines[1]
  ELSE context_lines[1] \o <<"\n">> \o JoinLines(Tail(context_lines))
NoContextAvailable == <<"No recent context available.">>

\* a variant that drops the entries without text before it takes the last
\* seven
_build_context_string_filtered(context_messages) ==
  LET kept == SelectSeq(context_messages, LAMBDA msg : msg.message_text # <<>>)
      context_lines == [i \in 1..Len(LastN(kept, ContextCap)) |->
                          ContextLine(LastN(kept, ContextCap)[i])]
  IN IF context_lines = <<>> THEN NoContextAvailable ELSE JoinLines(context_lines)

\* _build_context_string: the last seven entries, those with a text, one
\* line each
_build_context_string(context_messages) ==
  IF context_messages = <<>> THEN NoContextAvailable
  ELSE LET kept == SelectSeq(LastN(context_messages, ContextCap),
                             LAMBDA msg : msg.message_text # <<>>)
           context_lines == [i \in 1..Len(kept) |-> ContextLine(kept[i])]
       IN IF context_lines = <<>> THEN NoContextAvailable ELSE JoinLines(context_lines)

(***************************************************************************)
(* Tasks.  A task is one update being handled: its position (pc), the      *)
(* update's fields, the locals of the handlers on its call stack, and a    *)
(* trace of what it did.                                                   *)
(***************************************************************************)
NoUpdate == [key |-> "", sval |-> "", ival |-> 0]
NewTask ==
  [pc |-> "new", kind |-> "none",
   \* the update
   chat |-> "", user |-> "", username |-> "", first_name |-> "",
   message_id |-> 0, text |-> <<>>, entities |-> <<>>, reply_to |-> 0,
   data |-> <<>>,
   \* the store call in progress: where it returns to, where it raises to
   ret |-> "", exc |-> "",
   \* locals
   user_row |-> NoUser, named |-> FALSE, existing_info |-> NoInfo,
   key |-> "", value |-> "", update_data |-> NoUpdate,
   settings |-> NoSettings, limit |-> -1, context_messages |-> <<>>,
   intent_analysis |-> NoPayload, messages |-> <<>>,
   should_respond |-> "unset", response |-> NoText, sent_id |-> 0,
   \* the provider's response and the text _generate_response made of it
   provider_response |-> ApiError, extracted |-> NoText,
   \* the context string the gateway built
   context_str |-> <<>>,
   result |-> "unset",
   \* what the task did, in order
   calls |-> <<>>, trace |-> <<>>]

T(t) == task[t]
InFlight(t) == task[t].pc \notin {"new", "done"}
\* run to completion: no other task is between two of its awaits
Alone(t) == \A s \in Tasks \ {t} : ~InFlight(s)
\* tasks take their numbers in the order the updates arrive; seq: handlers
\* run one at a time, each to completion
CanStart(t, seq) ==
  /\ task[t].pc = "new"
  /\ \A s \in Tasks : s < t => task[s].pc # "new"
  /\ seq => Alone(t)

\* a handler that has returned keeps nothing: when the next update arrives
\* the finished tasks are forgotten
DoneTask == [NewTask EXCEPT !.pc = "done"]
Started(t, r) ==
  [s \in Tasks |-> IF s = t THEN r ELSE IF task[s].pc = "done" THEN DoneTask ELSE task[s]]

Fault == faults < MaxFaults /\ faults' = faults + 1
NoFault == faults' = faults

\* the profile Telegram reports for a user
ProfileUsername(u) == IF u = "u1" THEN "alice" ELSE "bob"
ProfileFirstName(u) == IF u = "u1" THEN "Al" ELSE "Bo"

\* message entities: Telegram marks a leading @name as a mention; a text
\* mention links a user without username
Entity(type, offset, length, user) ==
  [type |-> type, offset |-> offset, length |-> length, user |-> user]
Mention(text) == <<Entity("mention", 0, Len(text), "")>>
TextMention(u) == <<Entity("text_mention", 0, 1, u)>>
Update(c, text, entities) == [chat |-> c, text |-> text, entities |-> entities]

\* a message of a chat: its author, the message it replies to (0: none) and
\* whether it carries the settings keyboard
BotMessage(menu, reply_to) == [from_user |-> BotId, reply_to |-> reply_to, menu |-> menu]
UserMessage(u, reply_to) == [from_user |-> u, reply_to |-> reply_to, menu |-> FALSE]

\* a variant that knows a message as the bot's only when the log holds it as
\* bot-authored; C8 tells it from the author below
ReplyAuthor_logged(c, reply_to) ==
  IF \E i \in 1..Len(conversation_logs) :
       /\ conversation_logs[i].group_id = c /\ conversation_logs[i].message_id = reply_to
       /\ conversation_logs[i].is_bot_message
  THEN BotId ELSE ""

\* the author of the message an update replies to ("" when it is no reply)
ReplyAuthor(c, reply_to) == IF reply_to = 0 THEN "" ELSE chat[c][reply_to].from_user

(***************************************************************************)
(* main.py: handle_message.  The update is a text message; Telegram has    *)
(* given it the next message id of its chat.                               *)
(***************************************************************************)
handle_message(t, seq, inputs) ==
  /\ CanStart(t, seq)
  /\ \E in \in inputs, u \in UserIds :
       \* a group message may reply to the latest message of the chat
       \E reply_to \in {0, IF in.chat \in Groups THEN Len(chat[in.chat]) ELSE 0} :
         \* filters.TEXT, and `if not update.message.text: return`
         /\ in.text # <<>>
         /\ chat' = [chat EXCEPT ![in.chat] = Append(@, UserMessage(u, reply_to))]
         /\ task' = Started(t,
              [NewTask EXCEPT
                 !.kind = IF in.chat \in Groups THEN "group" ELSE "private",
                 !.chat = in.chat, !.user = u,
                 !.username = ProfileUsername(u), !.first_name = ProfileFirstName(u),
                 !.message_id = Len(chat[in.chat]) + 1, !.text = in.text,
                 !.entities = in.entities, !.reply_to = reply_to,
                 !.named = in.chat \in Groups,
                 \* group: get_or_create_user first; private: _process_with_ai
                 !.pc = IF in.chat \in Groups THEN "goc_select" ELSE "gs_select",
                 !.ret = IF in.chat \in Groups THEN "log_user" ELSE "analyze_intent",
                 !.exc = IF in.chat \in Groups THEN "swallow" ELSE "ai_except"])
  /\ UNCHANGED <<store, faults>>

(***************************************************************************)
(* database_service.py: get_or_create_user, one step per statement.        *)
(***************************************************************************)
\* a variant in which every except clause answers with an apology; C14
\* tells it from the except clauses below
Raise_notify(r) ==
  [r EXCEPT !.pc = "reply", !.response = BotText("apology_process", "", ""),
            !.trace = Append(@, "group_except")]

\* where a raised exception lands: the except clause of the innermost
\* enclosing try of the call in progress
Raise(r) ==
  CASE r.exc = "swallow" ->
         \* _handle_group_message: logged, nothing is sent
         [r EXCEPT !.pc = "done", !.trace = Append(@, "group_except")]
    [] r.exc = "ai_except" ->
         \* _process_with_ai: the apology
         [r EXCEPT !.pc = "reply", !.response = BotText("apology_process", "", ""),
                   !.trace = Append(@, "ai_except")]
    [] r.exc = "save_except" ->
         \* save_user_info returns False; _handle_save_info confirms anyway
         [r EXCEPT !.pc = IF r.kind = "save_user_info" THEN "done" ELSE "reply",
                   !.result = "false",
                   !.response = IF r.kind = "save_user_info" THEN @
                                ELSE BotText("saved", r.key, r.value),
                   !.trace = Append(@, "save_except")]
    [] r.exc = "update_except" ->
         \* update_group_settings returns False
         [r EXCEPT !.pc = "done", !.result = "false", !.trace = Append(@, "update_failed")]
    [] r.exc = "status_except" ->
         \* status_command: the error reply
         [r EXCEPT !.pc = "status_reply", !.trace = Append(@, "status_except")]
    [] OTHER -> [r EXCEPT !.pc = "done", !.trace = Append(@, "unhandled")]

goc_select(t) ==
  /\ T(t).pc = "goc_select"
  /\ \/ /\ NoFault
        /\ task' = [task EXCEPT ![t] =
             LET rows == UsersByTelegramId(T(t).user)
             IN [@ EXCEPT !.pc = "goc_commit",
                          !.user_row = IF rows = {} THEN NoUser ELSE TheRow(rows)]]
     \/ /\ Fault
        /\ task' = [task EXCEPT ![t] = Raise(@)]
  /\ UNCHANGED <<store, chat>>

\* the names get_or_create_user was called with
GocUsername(r) == IF r.named THEN r.username ELSE ""
GocFirstName(r) == IF r.named THEN r.first_name ELSE ""

goc_commit(t) ==
  /\ T(t).pc = "goc_commit"
  /\ \/ /\ NoFault
        /\ IF T(t).user_row # NoUser
           THEN \* UPDATE of the row by primary key
                /\ users' = {IF u.id = T(t).user_row.id
                             THEN UpdatedUser(u, GocUsername(T(t)), GocFirstName(T(t)))
                             ELSE u : u \in users}
                /\ task' = [task EXCEPT ![t] =
                     [@ EXCEPT !.pc = T(t).ret,
                               !.user_row = UpdatedUser(@, GocUsername(T(t)), GocFirstName(T(t)))]]
           ELSE IF UsersByTelegramId(T(t).user) # {}
                THEN \* INSERT against the unique telegram_id: IntegrityError
                     /\ users' = users
                     /\ task' = [task EXCEPT ![t] = Raise(@)]
                ELSE /\ users' = users \cup {User(T(t).user, GocUsername(T(t)), GocFirstName(T(t)))}
                     /\ task' = [task EXCEPT ![t] =
                          [@ EXCEPT !.pc = T(t).ret,
                                    !.user_row = User(T(t).user, GocUsername(T(t)), GocFirstName(T(t)))]]
     \/ /\ Fault
        /\ users' = users
        /\ task' = [task EXCEPT ![t] = Raise(@)]
  /\ UNCHANGED <<user_info, group_settings, conversation_logs, chat>>

(***************************************************************************)
(* main.py: _handle_group_message, the log of the incoming message and the *)
(* decision to respond.                                                    *)
(***************************************************************************)
\* a variant that drops the reply linkage; C1 tells it from the row below
UserLogEntry_unlinked(r) ==
  ConversationLog(r.chat, r.user, r.message_id, UserText(r.text), FALSE, FALSE, 0)

\* the row _handle_group_message logs for the incoming message
UserLogEntry(r) ==
  ConversationLog(r.chat, r.user, r.message_id, UserText(r.text), FALSE,
                  r.reply_to # 0, r.reply_to)

log_user_message(t) ==
  /\ T(t).pc = "log_user"
  /\ \/ /\ NoFault
        /\ conversation_logs' = log_conversation(conversation_logs, UserLogEntry(T(t)))
        /\ task' = [task EXCEPT ![t] =
             [@ EXCEPT !.pc = "should_respond", !.trace = Append(@, "log_user")]]
     \/ \* log_conversation catches the failure and returns False
        /\ Fault
        /\ conversation_logs' = conversation_logs
        /\ task' = [task EXCEPT ![t] =
             [@ EXCEPT !.pc = "should_respond", !.trace = Append(@, "log_user_failed")]]
  /\ UNCHANGED <<users, user_info, group_settings, chat>>

\* _should_respond_to_message, criterion by criterion
MentionsBot(text, entities) ==
  \E i \in 1..Len(entities) :
    \/ /\ entities[i].type = "mention"
       /\ slice(text, entities[i].offset, entities[i].length) = <<"@">> \o bot_username
    \/ /\ entities[i].type = "text_mention"
       /\ entities[i].user = BotId
UsernameInText(text) == bot_username # <<>> /\ contains(lower(bot_username), lower(text))
IsReplyToBot(reply_author) == reply_author = BotId
FirstNameInText(text) == bot_first_name # <<>> /\ contains(lower(bot_first_name), lower(text))
\* a variant without the reply criterion; C7 tells it from the checks below
RespondsBeforeGetMe_noreply(text, entities, reply_author) ==
  MentionsBot(text, entities) \/ UsernameInText(text)

\* the checks made before context.bot.get_me() is awaited
RespondsBeforeGetMe(text, entities, reply_author) ==
  MentionsBot(text, entities) \/ UsernameInText(text) \/ IsReplyToBot(reply_author)

should_respond_to_message(t) ==
  /\ T(t).pc = "should_respond"
  /\ LET early == RespondsBeforeGetMe(T(t).text, T(t).entities, ReplyAuthor(T(t).chat, T(t).reply_to))
     IN \/ /\ NoFault
           /\ task' = [task EXCEPT ![t] =
                IF early \/ FirstNameInText(T(t).text)
                THEN [@ EXCEPT !.pc = "get_context", !.should_respond = "true",
                               !.trace = Append(@, "should_respond")]
                ELSE [@ EXCEPT !.pc = "done", !.should_respond = "false",
                               !.trace = Append(@, "should_respond")]]
        \/ \* get_me fails: the exception leaves _handle_group_message's try
           /\ ~early
           /\ Fault
           /\ task' = [task EXCEPT ![t] = Raise(@)]
  /\ UNCHANGED <<store, chat>>

\* _handle_group_message: get_recent_messages(chat_id, config.context_messages_count)
get_context(t) ==
  /\ T(t).pc = "get_context"
  /\ \/ /\ NoFault
        /\ task' = [task EXCEPT ![t] =
             [@ EXCEPT !.pc = "gs_select", !.ret = "analyze_intent", !.exc = "ai_except",
                       !.limit = config_context_messages_count,
                       !.context_messages =
                          get_recent_messages(T(t).chat, config_context_messages_count),
                       !.trace = Append(@, "get_context")]]
     \/ \* get_recent_messages catches the failure and returns []
        /\ Fault
        /\ task' = [task EXCEPT ![t] =
             [@ EXCEPT !.pc = "gs_select", !.ret = "analyze_intent", !.exc = "ai_except",
                       !.limit = config_context_messages_count,
                       !.context_messages = <<>>,
                       !.trace = Append(@, "get_context_failed")]]
  /\ UNCHANGED <<store, chat>>

(***************************************************************************)
(* database_service.py: get_group_settings, called by _process_with_ai,    *)
(* update_group_settings and status_command.                               *)
(***************************************************************************)
gs_select(t) ==
  /\ T(t).pc = "gs_select"
  /\ \/ /\ NoFault
        /\ task' = [task EXCEPT ![t] =
             LET rows == SettingsRows(T(t).chat)
             IN IF rows = {} THEN [@ EXCEPT !.pc = "gs_insert"]
                ELSE [@ EXCEPT !.pc = T(t).ret, !.settings = TheRow(rows)]]
     \/ /\ Fault
        /\ task' = [task EXCEPT ![t] = Raise(@)]
  /\ UNCHANGED <<store, chat>>

\* a variant without the unique constraint on group_id
IntegrityError_none(group_id) == FALSE
\* group_id = Column(Integer, unique=True): the INSERT of a second row fails
IntegrityError(group_id) == SettingsRows(group_id) # {}

gs_insert(t) ==
  /\ T(t).pc = "gs_insert"
  /\ \/ /\ NoFault
        /\ IF IntegrityError(T(t).chat)
           THEN \* INSERT against the unique group_id: IntegrityError
                /\ group_settings' = group_settings
                /\ task' = [task EXCEPT ![t] = Raise(@)]
           ELSE /\ group_settings' = group_settings \cup {GroupSettings(T(t).chat)}
                /\ task' = [task EXCEPT ![t] =
                     [@ EXCEPT !.pc = T(t).ret, !.settings = GroupSettings(T(t).chat)]]
     \/ /\ Fault
        /\ group_settings' = group_settings
        /\ task' = [task EXCEPT ![t] = Raise(@)]
  /\ UNCHANGED <<users, user_info, conversation_logs, chat>>

(***************************************************************************)
(* main.py: _process_with_ai, the classification and the dispatch on it.   *)
(***************************************************************************)
\* a variant that saves whatever key and value the classifier gave; C12
\* tells it from the handler below
handle_save_info_unchecked(d, intent_analysis) ==
  [d EXCEPT !.pc = "save_select_user", !.exc = "save_except",
            !.key = intent_analysis.key, !.value = intent_analysis.value,
            !.trace = Append(@, "handle_save_info")]

\* _handle_save_info up to its first await: `if not key or not value`
handle_save_info(d, intent_analysis) ==
  IF intent_analysis.key = "" \/ intent_analysis.value = ""
  THEN [d EXCEPT !.pc = "reply", !.response = BotText("clarify_save", "", ""),
                 !.trace = Append(@, "handle_save_info")]
  ELSE [d EXCEPT !.pc = "save_select_user", !.exc = "save_except",
                 !.key = intent_analysis.key, !.value = intent_analysis.value,
                 !.trace = Append(@, "handle_save_info")]

\* the branch _process_with_ai takes on intent_analysis, up to the first
\* await of the handler it calls
dispatch(r, intent_analysis) ==
  LET d == [r EXCEPT !.intent_analysis = intent_analysis]
  IN CASE intent_analysis.kind # "object" ->
            \* intent_analysis.get raises AttributeError: the except clause
            [d EXCEPT !.pc = "reply", !.response = BotText("apology_process", "", ""),
                      !.trace = Append(@, "ai_except")]
       [] intent_analysis.kind = "object" /\ intent_analysis.intent = "save_info" ->
            handle_save_info(d, intent_analysis)
       [] intent_analysis.kind = "object" /\ intent_analysis.intent = "retrieve_info" ->
            IF intent_analysis.key = ""
            THEN [d EXCEPT !.pc = "reply", !.response = BotText("clarify_retrieve", "", ""),
                           !.trace = Append(@, "handle_retrieve_info")]
            ELSE [d EXCEPT !.pc = "retrieve_info", !.key = intent_analysis.key,
                           !.trace = Append(@, "handle_retrieve_info")]
       [] intent_analysis.kind = "object" /\ intent_analysis.intent = "summarize" ->
            [d EXCEPT !.pc = "summarize_fetch", !.trace = Append(@, "handle_summarize")]
       [] OTHER ->
            [d EXCEPT !.pc = "generate_response", !.trace = Append(@, "conversation")]

\* a variant that passes the caller's temperature on to the provider; C18
\* tells it from the temperature below
intent_temperature_caller(temperature) == temperature

\* analyze_intent(..., temperature, tone): the temperature of its provider
\* call, whatever temperature it was called with
intent_temperature(temperature) == IntentTemperature

\* analyze_intent: one provider call at the fixed temperature, then the
\* dispatch; a provider failure gives the fallback structure
analyze_intent(t, outputs) ==
  /\ T(t).pc = "analyze_intent"
  /\ LET called == [T(t) EXCEPT !.calls =
                      Append(@, Call("analyze_intent",
                                     intent_temperature(T(t).settings.temperature), ""))]
     IN \/ /\ NoFault
           /\ \E response \in outputs :
                task' = [task EXCEPT ![t] = dispatch(called, parse_intent(response.text))]
        \/ /\ Fault
           /\ task' = [task EXCEPT ![t] = dispatch(called, FallbackIntent)]
  /\ UNCHANGED <<store, chat>>

\* generate_response: one provider call with the group's temperature and the
\* persona of the group's tone
generate_response(t) ==
  /\ T(t).pc = "generate_response"
  /\ LET called == [T(t) EXCEPT
                      !.calls = Append(@, Call("generate_response", T(t).settings.temperature,
                                               persona(T(t).settings.tone))),
                      !.pc = "reply"]
     IN \/ /\ NoFault
           /\ \E kind \in {"reply", "apology_safety"} :
                task' = [task EXCEPT ![t] = [called EXCEPT !.response = BotText(kind, "", "")]]
        \/ /\ Fault
           /\ task' = [task EXCEPT ![t] =
                [called EXCEPT !.response = BotText("apology_generate", "", "")]]
  /\ UNCHANGED <<store, chat>>

(***************************************************************************)
(* database_service.py: save_user_info, one step per statement, and        *)
(* main.py: _handle_save_info, which confirms whatever save_user_info      *)
(* returned.                                                               *)
(***************************************************************************)
\* save_user_info has returned `ok`: the direct call ends, the handler
\* builds its confirmation
SaveReturn(r, ok) ==
  IF r.kind = "save_user_info"
  THEN [r EXCEPT !.pc = "done", !.result = ok]
  ELSE [r EXCEPT !.pc = "reply", !.result = ok, !.response = BotText("saved", r.key, r.value)]

save_select_user(t) ==
  /\ T(t).pc = "save_select_user"
  /\ \/ /\ NoFault
        /\ task' = [task EXCEPT ![t] =
             LET rows == UsersByTelegramId(T(t).user)
             IN IF rows = {}
                THEN \* user = await self.get_or_create_user(user_id)
                     [@ EXCEPT !.pc = "goc_select", !.named = FALSE,
                               !.ret = "save_select_info", !.exc = "save_except"]
                ELSE [@ EXCEPT !.pc = "save_select_info", !.user_row = TheRow(rows)]]
     \/ /\ Fault
        /\ task' = [task EXCEPT ![t] = SaveReturn(@, "false")]
  /\ UNCHANGED <<store, chat>>

save_select_info(t) ==
  /\ T(t).pc = "save_select_info"
  /\ \/ /\ NoFault
        /\ task' = [task EXCEPT ![t] =
             LET rows == InfoRows(T(t).user_row.id, T(t).key)
             IN CASE scalar_one_or_none(rows) = "raise" -> SaveReturn(@, "false")
                  [] scalar_one_or_none(rows) = "none" ->
                       [@ EXCEPT !.pc = "save_commit", !.existing_info = NoInfo]
                  [] OTHER -> [@ EXCEPT !.pc = "save_commit", !.existing_info = TheRow(rows)]]
     \/ /\ Fault
        /\ task' = [task EXCEPT ![t] = SaveReturn(@, "false")]
  /\ UNCHANGED <<store, chat>>

\* a variant that inserts whatever it read; C5 tells it from the commit below
SavedInfo_insert(r) == user_info \cup {UserInfo(r.user_row.id, r.key, r.value)}

\* the table after save_user_info's commit: the row it read is updated by
\* primary key, or a new row is inserted
SavedInfo(r) ==
  IF r.existing_info # NoInfo
  THEN {IF i.id = r.existing_info.id THEN [i EXCEPT !.value = r.value] ELSE i : i \in user_info}
  ELSE user_info \cup {UserInfo(r.user_row.id, r.key, r.value)}

save_commit(t) ==
  /\ T(t).pc = "save_commit"
  /\ \/ /\ NoFault
        /\ user_info' = SavedInfo(T(t))
        /\ task' = [task EXCEPT ![t] = SaveReturn(@, "true")]
     \/ /\ Fault
        /\ user_info' = user_info
        /\ task' = [task EXCEPT ![t] = SaveReturn(@, "false")]
  /\ UNCHANGED <<users, group_settings, conversation_logs, chat>>

(***************************************************************************)
(* main.py: _handle_retrieve_info and _handle_summarize.                   *)
(***************************************************************************)
\* get_user_info_by_username: the value found, or "" for None (no user, no
\* fact, or MultipleResultsFound caught)
get_user_info_by_username(username, key) ==
  LET urows == UsersByUsername(username)
      irows == InfoRows(TheRow(urows).id, key)
  IN IF scalar_one_or_none(urows) # "one" THEN ""
     ELSE IF scalar_one_or_none(irows) # "one" THEN ""
     ELSE TheRow(irows).value

\* get_user_info: the same, by telegram id
get_user_info(user_id, key) ==
  LET urows == UsersByTelegramId(user_id)
      irows == InfoRows(TheRow(urows).id, key)
  IN IF scalar_one_or_none(urows) # "one" THEN ""
     ELSE IF scalar_one_or_none(irows) # "one" THEN ""
     ELSE TheRow(irows).value

retrieve_info(t) ==
  /\ T(t).pc = "retrieve_info"
  /\ LET target == T(t).intent_analysis.target_username
         value == get_user_info_by_username(target, T(t).key)
     IN \/ /\ NoFault
           /\ task' = [task EXCEPT ![t] =
                [@ EXCEPT !.pc = "reply", !.result = value,
                          !.response = IF value # "" THEN BotText("info", T(t).key, value)
                                       ELSE BotText("not_found", target, "")]]
        \/ \* get_user_info_by_username catches the failure and returns None
           /\ Fault
           /\ task' = [task EXCEPT ![t] =
                [@ EXCEPT !.pc = "reply", !.result = "",
                          !.response = BotText("not_found", target, ""),
                          !.trace = Append(@, "retrieve_failed")]]
  /\ UNCHANGED <<store, chat>>

\* a variant that always reads the default number of messages
message_count_default(intent_analysis) == DefaultSummaryCount

\* intent_analysis.get("message_count", 20)
message_count(intent_analysis) ==
  IF intent_analysis.message_count = -1 THEN DefaultSummaryCount
  ELSE intent_analysis.message_count

summarize_fetch(t) ==
  /\ T(t).pc = "summarize_fetch"
  /\ LET fetched(messages) ==
           IF messages = <<>>
           THEN [T(t) EXCEPT !.pc = "reply", !.messages = messages,
                             !.response = BotText("nothing_to_summarize", "", "")]
           ELSE [T(t) EXCEPT !.pc = "summarize_call", !.messages = messages]
     IN \/ /\ NoFault
           /\ task' = [task EXCEPT ![t] =
                fetched(get_recent_messages(T(t).chat, message_count(T(t).intent_analysis)))]
        \/ \* get_recent_messages catches the failure and returns []
           /\ Fault
           /\ task' = [task EXCEPT ![t] =
                [fetched(<<>>) EXCEPT !.trace = Append(@, "summarize_fetch_failed")]]
  /\ UNCHANGED <<store, chat>>

\* summarize_conversation: one provider call at the fixed temperature; the
\* handler wraps whatever comes back with the header
summarize_call(t) ==
  /\ T(t).pc = "summarize_call"
  /\ LET called == [T(t) EXCEPT
                      !.calls = Append(@, Call("summarize_conversation", IntentTemperature, "")),
                      !.pc = "reply"]
     IN \/ /\ NoFault
           /\ \E kind \in {"reply", "apology_safety"} :
                task' = [task EXCEPT ![t] = [called EXCEPT !.response = BotText("summary", kind, "")]]
        \/ /\ Fault
           /\ task' = [task EXCEPT ![t] =
                [called EXCEPT !.response = BotText("summary", "apology_summarize", "")]]
  /\ UNCHANGED <<store, chat>>

(***************************************************************************)
(* main.py: the reply and its log entry.                                   *)
(***************************************************************************)
\* `if response: await message.reply_text(response)`
reply(t) ==
  /\ T(t).pc = "reply"
  /\ IF T(t).response = NoText
     THEN /\ NoFault
          /\ chat' = chat
          /\ task' = [task EXCEPT ![t] = [@ EXCEPT !.pc = "done", !.trace = Append(@, "no_response")]]
     ELSE \/ /\ NoFault
             \* message.reply_text(response)
             /\ chat' = [chat EXCEPT ![T(t).chat] = Append(@, BotMessage(FALSE, T(t).message_id))]
             /\ task' = [task EXCEPT ![t] =
                  [@ EXCEPT !.pc = IF T(t).kind = "group" THEN "log_bot" ELSE "done",
                            !.sent_id = Len(chat[T(t).chat]) + 1,
                            !.trace = Append(@, "send")]]
          \/ \* the send fails: swallowed in a group, raised out of the handler
             \* in a private chat
             /\ Fault
             /\ chat' = chat
             /\ task' = [task EXCEPT ![t] =
                  [@ EXCEPT !.pc = "done",
                            !.trace = Append(@, IF T(t).kind = "group" THEN "group_except"
                                                ELSE "unhandled")]]
  /\ UNCHANGED store

\* a variant that drops the link to the triggering message; C9 tells it
\* from the row below
BotLogEntry_unlinked(r) ==
  ConversationLog(r.chat, BotId, r.sent_id, r.response, TRUE, FALSE, 0)

\* the row _handle_group_message logs for the bot's response
BotLogEntry(r) ==
  ConversationLog(r.chat, BotId, r.sent_id, r.response, TRUE, TRUE, r.message_id)

log_bot_response(t) ==
  /\ T(t).pc = "log_bot"
  /\ \/ /\ NoFault
        /\ conversation_logs' = log_conversation(conversation_logs, BotLogEntry(T(t)))
        /\ task' = [task EXCEPT ![t] = [@ EXCEPT !.pc = "done", !.trace = Append(@, "log_bot")]]
     \/ /\ Fault
        /\ conversation_logs' = conversation_logs
        /\ task' = [task EXCEPT ![t] = [@ EXCEPT !.pc = "done", !.trace = Append(@, "log_bot_failed")]]
  /\ UNCHANGED <<users, user_info, group_settings, chat>>

(***************************************************************************)
(* main.py: the settings surface.  /settings shows the menu to an          *)
(* administrator; a callback query carries the data of a pressed button,   *)
(* split here at "_".                                                      *)
(***************************************************************************)
\* context.bot.get_chat_member(chat_id, user_id).status
ChatMemberStatus(c, u) == IF u = "u1" THEN "administrator" ELSE "member"

settings_command(t, seq) ==
  /\ CanStart(t, seq)
  /\ \E c \in Chats, u \in UserIds :
       LET r == [NewTask EXCEPT !.kind = "settings_command", !.chat = c, !.user = u,
                                !.message_id = Len(chat[c]) + 1, !.pc = "done"]
           received == Append(chat[c], UserMessage(u, 0))
       IN \/ /\ NoFault
             /\ IF c \in Groups /\ ChatMemberStatus(c, u) \in {"administrator", "creator"}
                THEN \* _show_settings_menu
                     /\ chat' = [chat EXCEPT ![c] = Append(received, BotMessage(TRUE, Len(received)))]
                     /\ task' = Started(t, [r EXCEPT !.trace = <<"show_settings_menu">>])
                ELSE \* "only in groups" / "only administrators"
                     /\ chat' = [chat EXCEPT ![c] = Append(received, BotMessage(FALSE, Len(received)))]
                     /\ task' = Started(t, [r EXCEPT !.trace = <<"refused">>])
          \/ \* get_chat_member fails: "error checking permissions"
             /\ c \in Groups
             /\ Fault
             /\ chat' = [chat EXCEPT ![c] = Append(received, BotMessage(FALSE, Len(received)))]
             /\ task' = Started(t, [r EXCEPT !.trace = <<"admin_check_failed">>])
  /\ UNCHANGED store

\* float(setting_value) in tenths, int(setting_value); -1: ValueError
parse_float(x) ==
  CASE x = "0.1" -> 1 [] x = "0.3" -> 3 [] x = "0.7" -> 7 [] x = "0.9" -> 9
    [] x = "1.0" -> 10 [] OTHER -> -1
parse_int(x) ==
  CASE x = "3" -> 3 [] x = "5" -> 5 [] x = "7" -> 7 [] x = "10" -> 10
    [] x = "15" -> 15 [] OTHER -> -1

\* _handle_setting_update: update_data from parts[2] and "_".join(parts[3:])
update_data(parts) ==
  CASE parts[3] = "model" -> [key |-> "gemini_model", sval |-> parts[4], ival |-> 0]
    [] parts[3] = "temperature" -> [key |-> "temperature", sval |-> "", ival |-> parse_float(parts[4])]
    [] parts[3] = "tone" -> [key |-> "tone", sval |-> parts[4], ival |-> 0]
    [] parts[3] = "context" ->
         [key |-> "context_messages_count", sval |-> "", ival |-> parse_int(parts[4])]
    [] OTHER -> NoUpdate

\* handle_callback_query and _handle_settings_callback, up to the first
\* store call
handle_callback_query(t, seq, datas) ==
  /\ CanStart(t, seq)
  /\ \E c \in Groups, u \in UserIds, data \in datas :
       LET r == [NewTask EXCEPT !.kind = "callback", !.chat = c, !.user = u,
                                !.data = data, !.pc = "done"]
           action == Tail(data)
       IN \* a button of a settings menu shown in the chat was pressed
          /\ \E i \in 1..Len(chat[c]) : chat[c][i].menu
          /\ task' = Started(t,
               IF ~(Len(data) >= 2 /\ data[1] = "setting")
               THEN \* elif query.data == "setting_back"
                    IF data = <<"setting", "back">>
                    THEN [r EXCEPT !.trace = <<"show_settings_menu_edit">>]
                    ELSE [r EXCEPT !.trace = <<"ignored">>]
               ELSE IF action = <<"close">> THEN [r EXCEPT !.trace = <<"closed">>]
               ELSE IF action \in {<<"model">>, <<"temperature">>, <<"tone">>, <<"context">>}
                    THEN [r EXCEPT !.trace = <<"show_selection">>]
               ELSE IF ~(Len(action) >= 2 /\ action[1] = "set")
                    THEN [r EXCEPT !.trace = <<"unknown_setting">>]
               ELSE IF Len(data) < 4 THEN [r EXCEPT !.trace = <<"invalid_format">>]
               ELSE IF update_data(data).ival = -1
                    THEN \* ValueError from float() / int()
                         [r EXCEPT !.trace = <<"update_error">>]
               ELSE [r EXCEPT !.pc = "gs_select", !.ret = "update_commit",
                              !.exc = "update_except",
                              !.update_data = update_data(data),
                              !.trace = <<"handle_setting_update">>])
  /\ UNCHANGED <<store, chat, faults>>

\* the value an update carries for its column
UpdateValue(u) == IF u.key \in {"gemini_model", "tone"} THEN u.sval ELSE u.ival

\* a variant that writes a fresh default row carrying only the named column
UpdatedSettings_replace(row, snapshot, u) ==
  IF u.key = "" THEN GroupSettings(row.group_id)
  ELSE [GroupSettings(row.group_id) EXCEPT ![u.key] = UpdateValue(u)]

\* update_group_settings: setattr on the settings object read by
\* get_group_settings, then the UPDATE of the columns whose value changed
UpdatedSettings(row, snapshot, u) ==
  IF u.key = "" \/ snapshot[u.key] = UpdateValue(u) THEN row
  ELSE [row EXCEPT ![u.key] = UpdateValue(u)]

update_commit(t) ==
  /\ T(t).pc = "update_commit"
  /\ \/ /\ NoFault
        /\ group_settings' =
             {IF s.group_id = T(t).chat THEN UpdatedSettings(s, T(t).settings, T(t).update_data)
              ELSE s : s \in group_settings}
        /\ task' = [task EXCEPT ![t] =
             [@ EXCEPT !.pc = "done", !.result = "true", !.trace = Append(@, "updated")]]
     \/ /\ Fault
        /\ group_settings' = group_settings
        /\ task' = [task EXCEPT ![t] =
             [@ EXCEPT !.pc = "done", !.result = "false", !.trace = Append(@, "update_failed")]]
  /\ UNCHANGED <<users, user_info, conversation_logs, chat>>

(***************************************************************************)
(* main.py: status_command.  Its reply is a message of the bot that is     *)
(* not logged.                                                             *)
(***************************************************************************)
status_command(t, seq) ==
  /\ CanStart(t, seq)
  /\ \E c \in Chats, u \in UserIds :
       LET r == [NewTask EXCEPT !.kind = "status_command", !.chat = c, !.user = u,
                                !.message_id = Len(chat[c]) + 1]
       IN /\ chat' = [chat EXCEPT ![c] = Append(@, UserMessage(u, 0))]
          /\ task' = Started(t,
               IF c \in Groups
               THEN [r EXCEPT !.pc = "gs_select", !.ret = "status_reply", !.exc = "status_except"]
               ELSE [r EXCEPT !.pc = "status_reply"])
  /\ UNCHANGED <<store, faults>>

\* update.message.reply_text(status_text, parse_mode='Markdown')
status_reply(t) ==
  /\ T(t).pc = "status_reply"
  /\ chat' = [chat EXCEPT ![T(t).chat] = Append(@, BotMessage(FALSE, T(t).message_id))]
  /\ task' = [task EXCEPT ![t] =
       [@ EXCEPT !.pc = "done", !.sent_id = Len(chat[T(t).chat]) + 1,
                 !.trace = Append(@, "status_sent")]]
  /\ UNCHANGED <<store, faults>>

(***************************************************************************)
(* Direct calls of the store, as test_bot.py makes them.                   *)
(***************************************************************************)
Keys == {"k1", "k2"}
Values == {"v1", "v2"}

call_save_user_info(t, seq, user_ids) ==
  /\ CanStart(t, seq)
  /\ \E u \in user_ids, key \in Keys, value \in Values :
       task' = Started(t, [NewTask EXCEPT !.kind = "save_user_info", !.user = u,
                                          !.key = key, !.value = value,
                                          !.pc = "save_select_user", !.exc = "save_except"])
  /\ UNCHANGED <<store, chat, faults>>

call_get_user_info(t, seq, user_ids) ==
  /\ CanStart(t, seq)
  /\ \E u \in user_ids, key \in Keys :
       LET r == [NewTask EXCEPT !.kind = "get_user_info", !.user = u, !.key = key, !.pc = "done"]
       IN \/ /\ NoFault
             /\ task' = Started(t, [r EXCEPT !.result = get_user_info(u, key)])
          \/ /\ Fault
             /\ task' = Started(t, [r EXCEPT !.result = ""])
  /\ UNCHANGED <<store, chat>>

\* get_group_settings and update_group_settings called directly; an
\* exception of get_group_settings reaches the caller
call_get_group_settings(t, seq, groups) ==
  /\ CanStart(t, seq)
  /\ \E g \in groups :
       task' = Started(t, [NewTask EXCEPT !.kind = "get_group_settings", !.chat = g,
                                          !.pc = "gs_select", !.ret = "done"])
  /\ UNCHANGED <<store, chat, faults>>

call_update_group_settings(t, seq, groups, updates) ==
  /\ CanStart(t, seq)
  /\ \E g \in groups, u \in updates :
       task' = Started(t, [NewTask EXCEPT !.kind = "update_group_settings", !.chat = g,
                                          !.update_data = u,
                                          !.pc = "gs_select", !.ret = "update_commit",
                                          !.exc = "update_except"])
  /\ UNCHANGED <<store, chat, faults>>

(***************************************************************************)
(* gemini_service.py: analyze_intent called directly, one step for the     *)
(* provider call with the extraction and one for the parse.                *)
(***************************************************************************)
call_analyze_intent(t, seq, responses) ==
  /\ CanStart(t, seq)
  /\ \E response \in responses :
       task' = Started(t, [NewTask EXCEPT !.kind = "analyze_intent", !.pc = "generate_content",
                                          !.provider_response = response])
  /\ UNCHANGED <<store, chat, faults>>

\* _generate_response: the provider call raises, or its response is turned
\* into a text
_generate_response(t) ==
  /\ T(t).pc = "generate_content"
  /\ LET called == [T(t) EXCEPT !.calls =
                      Append(@, Call("analyze_intent",
                                     intent_temperature(T(t).settings.temperature), ""))]
     IN IF T(t).provider_response.raised
        THEN task' = [task EXCEPT ![t] =
               [called EXCEPT !.pc = "parse_intent", !.trace = Append(@, "provider_raised")]]
        ELSE \E accessed \in TextAccessor(T(t).provider_response) :
               task' = [task EXCEPT ![t] =
                 [called EXCEPT !.pc = "parse_intent",
                                !.extracted = extract_text(T(t).provider_response, accessed)]]
  /\ UNCHANGED <<store, chat, faults>>

\* analyze_intent after the provider call: the parse, or the fallback of
\* the outer except clause
analyze_intent_parse(t) ==
  /\ T(t).pc = "parse_intent"
  /\ task' = [task EXCEPT ![t] =
       [@ EXCEPT !.pc = "done",
                 !.intent_analysis = IF T(t).provider_response.raised THEN FallbackIntent
                                     ELSE parse_intent(ResponseText(T(t).extracted))]]
  /\ UNCHANGED <<store, chat, faults>>

\* _build_context_string called directly
call_build_context_string(t, seq, contexts) ==
  /\ CanStart(t, seq)
  /\ \E context_messages \in contexts :
       task' = Started(t, [NewTask EXCEPT !.kind = "build_context_string", !.pc = "done",
                                          !.context_messages = context_messages,
                                          !.context_str = _build_context_string(context_messages)])
  /\ UNCHANGED <<store, chat, faults>>

(***************************************************************************)
(* The inputs the environment supplies, and the specifications.            *)
(***************************************************************************)
\* incoming messages of a group: a mention of the handle, the handle in
\* another case, the bot's first name in another case, a mention of
\* somebody else, a text that addresses nobody, and text mentions
GroupUpdates(c) ==
  {Update(c, <<"@", "b", "o">>, Mention(<<"@", "b", "o">>)),
   Update(c, <<"x", "B", "O">>, <<>>),
   Update(c, <<"h", "U">>, <<>>),
   Update(c, <<"@", "x">>, Mention(<<"@", "x">>)),
   Update(c, <<"h", "i">>, <<>>),
   Update(c, <<"h", "i">>, TextMention(BotId)),
   Update(c, <<"h", "i">>, TextMention("u2"))}
Updates ==
  {Update("g1", <<"@", "b", "o">>, Mention(<<"@", "b", "o">>)),
   Update("g1", <<"h", "i">>, <<>>),
   Update("g2", <<"h", "i">>, <<>>),
   Update(PrivateChat, <<"h", "i">>, <<>>)}

\* what the provider answers to the classification prompt
IntentObjects ==
  {Object("save_info", "k1", "v1", "", -1), Object("save_info", "k1", "", "", -1),
   Object("retrieve_info", "k1", "", "alice", -1), Object("retrieve_info", "k1", "", "", -1),
   Object("summarize", "", "", "", -1),
   Object("summarize", "", "", "", 1), Object("conversation", "", "", "", -1),
   Object("chitchat", "", "", "", -1), Object("", "", "", "", -1)}
IntentOutputs ==
  {ProviderText(<<PayloadTok(o)>>) : o \in IntentObjects}
    \cup {ProviderText(<<PayloadTok(NonObject)>>), ProviderText(<<PayloadTok(Garbage)>>)}

\* the buttons of the settings menus
CallbackDatas ==
  {<<"setting", "model">>, <<"setting", "close">>, <<"setting", "back">>,
   <<"setting", "set", "model", "gemini-2.5-pro">>,
   <<"setting", "set", "temperature", "0.9">>,
   <<"setting", "set", "tone", "formal">>,
   <<"setting", "set", "context", "3">>}

Init ==
  /\ users = {}
  /\ user_info = {}
  /\ group_settings = {}
  /\ conversation_logs = <<>>
  \* the administrator may already have opened the settings menu in g1
  /\ chat \in {[c \in Chats |-> <<>>],
               [c \in Chats |-> IF c = "g1" THEN <<UserMessage("u1", 0), BotMessage(TRUE, 1)>> ELSE <<>>]}
  /\ task = [t \in Tasks |-> NewTask]
  /\ faults = 0

\* a step of a handler that is under way
Step(t) ==
  \/ goc_select(t) \/ goc_commit(t)
  \/ log_user_message(t) \/ should_respond_to_message(t) \/ get_context(t)
  \/ gs_select(t) \/ gs_insert(t)
  \/ analyze_intent(t, IntentOutputs) \/ generate_response(t)
  \/ save_select_user(t) \/ save_select_info(t) \/ save_commit(t)
  \/ retrieve_info(t) \/ summarize_fetch(t) \/ summarize_call(t)
  \/ reply(t) \/ log_bot_response(t)
  \/ update_commit(t) \/ status_reply(t)

\* an update arrives
Start(t) ==
  \/ handle_message(t, TRUE, Updates)
  \/ settings_command(t, TRUE)
  \/ handle_callback_query(t, TRUE, CallbackDatas)
  \/ status_command(t, TRUE)

\* The router.  Application.builder().token(...).build() leaves
\* concurrent_updates off: the application awaits the handler of an update
\* before it takes the next update, so handlers run one at a time.
Next == \E t \in 1..MaxUpdates : Start(t) \/ Step(t)
Spec == Init /\ [][Next]_vars

\* The store called directly: save_user_info and get_user_info as coroutines
\* of one event loop, interleaving at their awaits; the calls are about one
\* user.
StoreUsers == {"u1"}
StoreStep(t) ==
  \/ save_select_user(t) \/ goc_select(t) \/ goc_commit(t)
  \/ save_select_info(t) \/ save_commit(t)
StoreNext ==
  \E t \in Tasks :
    \/ call_save_user_info(t, FALSE, StoreUsers)
    \/ call_get_user_info(t, FALSE, StoreUsers)
    \/ StoreStep(t)
StoreSpec == Init /\ [][StoreNext]_vars

\* The store called directly, each call awaited before the next is made.
StoreSeqNext ==
  \E t \in Tasks :
    \/ call_save_user_info(t, TRUE, UserIds)
    \/ call_get_user_info(t, TRUE, UserIds)
    \/ StoreStep(t)
StoreSeqSpec == Init /\ [][StoreSeqNext]_vars

\* The settings of the groups read and updated directly, the calls being
\* coroutines of one event loop that interleave at their awaits.
SettingsUpdates ==
  {[key |-> "temperature", sval |-> "", ival |-> 9],
   [key |-> "temperature", sval |-> "", ival |-> config_default_temperature],
   [key |-> "tone", sval |-> "formal", ival |-> 0]}
SettingsNext ==
  \E t \in Tasks :
    \/ call_get_group_settings(t, FALSE, Groups)
    \/ call_update_group_settings(t, FALSE, Groups, SettingsUpdates)
    \/ gs_select(t) \/ gs_insert(t) \/ update_commit(t)
SettingsSpec == Init /\ [][SettingsNext]_vars

\* The gateway's context string built directly from contexts of up to
\* MaxContext entries, oldest first as get_recent_messages returns them;
\* the timestamp of an entry is its position.
ContextEntries ==
  {[username |-> <<"a", "l">>, message_text |-> <<>>],
   [username |-> <<"b", "o", "b">>, message_text |-> <<"h", "i">>]}
Contexts ==
  UNION {{[i \in 1..n |-> [timestamp |-> <<ToString(i)>>, username |-> f[i].username,
                            message_text |-> f[i].message_text]] :
            f \in [1..n -> ContextEntries]} : n \in 0..MaxContext}
ContextNext == \E t \in Tasks : call_build_context_string(t, TRUE, Contexts)
ContextSpec == Init /\ [][ContextNext]_vars

\* The router on the messages that exercise every criterion of the decision
\* to respond; the classifier answers "conversation".
TriggerOutputs == {ProviderText(<<PayloadTok(Object("conversation", "", "", "", -1))>>)}
TriggerUpdates == GroupUpdates("g1") \cup {Update(PrivateChat, <<"h", "i">>, <<>>)}
TriggerStep(t) ==
  \/ goc_select(t) \/ goc_commit(t)
  \/ log_user_message(t) \/ should_respond_to_message(t) \/ get_context(t)
  \/ gs_select(t) \/ gs_insert(t)
  \/ analyze_intent(t, TriggerOutputs) \/ generate_response(t)
  \/ reply(t) \/ log_bot_response(t)
TriggerNext ==
  \E t \in 1..MaxUpdates :
    \/ handle_message(t, TRUE, TriggerUpdates)
    \/ TriggerStep(t)
TriggerSpec == Init /\ [][TriggerNext]_vars

\* Group messages handled concurrently, as under
\* Application.builder().concurrent_updates(True) or with two instances of
\* the bot on one database: the handlers interleave at their awaits.
ConcurrentNext ==
  \E t \in 1..MaxUpdates :
    \/ handle_message(t, FALSE, Updates)
    \/ TriggerStep(t)
ConcurrentSpec == Init /\ [][ConcurrentNext]_vars

\* The gateway called directly on the responses a provider can give: no
\* candidate, or candidates with each finish reason and with parts that
\* carry a JSON object bare or fenced, other JSON, other text, blanks or
\* nothing.
FinishReasons ==
  {"FINISH_REASON_UNSPECIFIED", "STOP", "MAX_TOKENS", "SAFETY", "RECITATION", "OTHER"}
GatewayObjects == {Object("save_info", "k1", "v1", "", -1), Object("", "", "", "", -1)}
Fenced(open, p) == open \o <<Ws, PayloadTok(p), Ws, Fence>>
GatewayTexts ==
  {<<>>, <<Ws>>, <<PayloadTok(Garbage)>>, <<PayloadTok(NonObject)>>,
   Fenced(<<Fence, JsonTag>>, Garbage), <<Fence, JsonTag, Fence>>}
    \cup {<<PayloadTok(o)>> : o \in GatewayObjects}
    \cup {<<Ws, PayloadTok(o), Ws>> : o \in GatewayObjects}
    \cup {Fenced(<<Fence, JsonTag>>, o) : o \in GatewayObjects}
    \cup {Fenced(<<Fence>>, o) : o \in GatewayObjects}
    \cup {<<Ws>> \o Fenced(<<Fence, JsonTag>>, o) \o <<Ws>> : o \in GatewayObjects}
GatewayParts ==
  {<<>>} \cup {<<a>> : a \in GatewayTexts}
         \cup {<<a, b>> : a \in {<<>>, <<Ws>>, <<PayloadTok(Garbage)>>}, b \in GatewayTexts}
GatewayResponses ==
  {ApiError, ProviderResponse(<<>>)}
    \cup {ProviderResponse(<<Candidate(r, ps)>>) : r \in FinishReasons, ps \in GatewayParts}
    \cup {ProviderResponse(<<Candidate(r, ps), Candidate("STOP", <<a>>)>>) :
            r \in {"STOP", "MAX_TOKENS", "SAFETY"}, ps \in {<<>>, <<(<<Ws>>)>>},
            a \in {<<Ws>>, <<PayloadTok(Garbage)>>}}
GatewayNext ==
  \E t \in 1..MaxUpdates :
    \/ call_analyze_intent(t, TRUE, GatewayResponses)
    \/ _generate_response(t)
    \/ analyze_intent_parse(t)
GatewaySpec == Init /\ [][GatewayNext]_vars

(***************************************************************************)
(* Properties.                                                             *)
(***************************************************************************)
\* the task did e / did one of A before every e it did
InTrace(t, e) == \E i \in 1..Len(T(t).trace) : T(t).trace[i] = e
Before(t, A, e) ==
  \A i \in 1..Len(T(t).trace) :
    T(t).trace[i] = e => \E j \in 1..(i - 1) : T(t).trace[j] \in A
IsMessage(t) == T(t).kind \in {"group", "private"}

\* the log holds the incoming message of task t with its group, sender,
\* reply linkage and is_bot_message = FALSE
IncomingLogged(t) ==
  \E i \in 1..Len(conversation_logs) :
    LET row == conversation_logs[i]
    IN /\ row.group_id = T(t).chat /\ row.user_id = T(t).user
       /\ row.message_id = T(t).message_id /\ row.is_bot_message = FALSE
       /\ row.is_reply = (T(t).reply_to # 0)
       /\ row.reply_to_message_id = T(t).reply_to
\* the log rows about message m of chat c
RowsOf(c, m) ==
  {i \in 1..Len(conversation_logs) :
     conversation_logs[i].group_id = c /\ conversation_logs[i].message_id = m}

\* C1, as stated: every text message the router handles, in a group or in a
\* private chat, is in the log once the decision to respond is evaluated
\* and when its handling has ended, answered or not.
C1_EveryMessageLogged ==
  \A t \in Tasks :
    IsMessage(t) /\ (InTrace(t, "should_respond") \/ T(t).pc = "done")
      => IncomingLogged(t)

\* C1, amended: for a group message the append is attempted before the
\* decision to respond is evaluated, the message is in the log whenever the
\* write succeeded, and when nothing failed every handled group message is
\* in the log whether or not it is answered; a private message is never
\* logged.
C1_GroupMessageLoggedBeforeDecision ==
  \A t \in Tasks :
    /\ T(t).kind = "group" =>
         /\ Before(t, {"log_user", "log_user_failed"}, "should_respond")
         /\ InTrace(t, "log_user") => IncomingLogged(t)
         /\ faults = 0 /\ T(t).pc \in {"get_context", "done"}
              => InTrace(t, "should_respond") /\ IncomingLogged(t)
    /\ T(t).kind = "private" => RowsOf(T(t).chat, T(t).message_id) = {}

\* a group message that replies to another user's message was left
\* unanswered and is in the log
C1_Witness ==
  \E t \in Tasks :
    /\ T(t).kind = "group" /\ T(t).pc = "done" /\ T(t).should_respond = "false"
    /\ T(t).reply_to # 0 /\ IncomingLogged(t)

\* the context-window size configured for a group (the default when the
\* group has no settings row yet)
ConfiguredContextSize(g) ==
  IF SettingsRows(g) = {} THEN config_context_messages_count
  ELSE TheRow(SettingsRows(g)).context_messages_count

\* C2, as stated: when the bot responds to a group message, the number of
\* logged messages it asks the store for is the group's configured
\* context-window size.
C2_ContextSizeIsGroupSetting ==
  \A t \in Tasks :
    T(t).kind = "group" /\ T(t).limit # -1 => T(t).limit = ConfiguredContextSize(T(t).chat)

\* C3, as stated: once a settings update has changed a group's row, a
\* message processed in that group is handled with the row's values: every
\* provider call uses the row's model, the conversational reply uses the
\* row's temperature and tone, the context fetch uses the row's size.
C3_UpdateVisibleOnNextMessage ==
  \A t \in Tasks :
    IsMessage(t) /\ SettingsRows(T(t).chat) # {}
                 /\ TheRow(SettingsRows(T(t).chat)) # GroupSettings(T(t).chat) =>
      LET row == TheRow(SettingsRows(T(t).chat))
      IN /\ \A i \in 1..Len(T(t).calls) :
              /\ T(t).calls[i].model = row.gemini_model
              /\ T(t).calls[i].op = "generate_response" =>
                   /\ T(t).calls[i].temperature = row.temperature
                   /\ T(t).calls[i].tone = persona(row.tone)
         /\ T(t).limit # -1 => T(t).limit = row.context_messages_count

\* no two rows of user_info share (user, key)
OneRowPerKey ==
  \A i1, i2 \in user_info : i1.user_id = i2.user_id /\ i1.key = i2.key => i1 = i2
IsSave(t) == T(t).kind = "save_user_info"

\* C4, as stated: however concurrent save_user_info calls interleave, the
\* store holds at most one row per (user, key), and a pair that has been
\* saved stays readable, with the value of one of the saves.
C4_ConcurrentSavesKeepOneRow ==
  /\ OneRowPerKey
  /\ \A u \in UserIds, k \in Keys :
       (\E i \in user_info, r \in users :
           r.telegram_id = u /\ i.user_id = r.id /\ i.key = k)
         => get_user_info(u, k) \in Values

\* the save of task t returns in this step
SaveReturns(t) == IsSave(t) /\ T(t).pc # "done" /\ task'[t].pc = "done"

\* C5: with the calls made one after the other, a save that returns True
\* leaves exactly one row for its (user, key) and get_user_info returns its
\* value; what get_user_info returns for a pair changes in no other step,
\* so it is the value of the most recent successful save.
C5_SequentialUpsert ==
  [][/\ \A t \in Tasks :
          SaveReturns(t) /\ task'[t].result = "true" =>
            /\ get_user_info(T(t).user, T(t).key)' = T(t).value
            /\ OneRowPerKey'
            /\ \E i \in user_info' : i.key = T(t).key /\ i.value = T(t).value
     /\ \A u \in UserIds, k \in Keys :
          get_user_info(u, k)' # get_user_info(u, k) =>
            \E t \in Tasks :
              /\ SaveReturns(t) /\ task'[t].result = "true"
              /\ T(t).user = u /\ T(t).key = k]_vars

\* a second save of the same (user, key) has replaced the value of the first
C5_Witness ==
  \E t \in Tasks :
    /\ IsSave(t) /\ T(t).pc = "done" /\ T(t).result = "true"
    /\ T(t).existing_info # NoInfo /\ T(t).existing_info.value # T(t).value
    /\ get_user_info(T(t).user, T(t).key) = T(t).value
    /\ Cardinality({i \in user_info : i.key = T(t).key}) = 1

\* every log row of a group, oldest first
GroupRows(g) == SelectSeq(conversation_logs, LAMBDA log : log.group_id = g)

\* C6, as stated: get_recent_messages(group, N) is the N most recently
\* inserted log rows of the group, whoever their authors are, oldest first
\* (all of them when fewer than N exist).
C6_RecentMessagesAreTheLastRows ==
  \A g \in Groups, n \in {1, 2, config_context_messages_count} :
    LET expected == LastN(GroupRows(g), n)
        got == get_recent_messages(g, n)
    IN /\ Len(got) = Len(expected)
       /\ \A i \in 1..Len(got) :
            /\ got[i].message_id = expected[i].message_id
            /\ got[i].is_bot_message = expected[i].is_bot_message

\* the criteria of the decision, read off the update of task t
Decided(t) == T(t).kind = "group" /\ T(t).should_respond \in {"true", "false"}
MentionOfHandle(t) ==
  \E i \in 1..Len(T(t).entities) :
    LET e == T(t).entities[i]
    IN /\ e.type = "mention"
       /\ e.offset + e.length <= Len(T(t).text)
       /\ SubSeq(T(t).text, e.offset + 1, e.offset + e.length) = <<"@">> \o bot_username
TextMentionOfBot(t) ==
  \E i \in 1..Len(T(t).entities) :
    T(t).entities[i].type = "text_mention" /\ T(t).entities[i].user = BotId
HandleInText(t) == contains(lower(bot_username), lower(T(t).text))
NameInText(t) == contains(lower(bot_first_name), lower(T(t).text))
ReplyToBotMessage(t) ==
  T(t).reply_to # 0 /\ chat[T(t).chat][T(t).reply_to].from_user = BotId
\* the replied-to message is in the log as bot-authored
ReplyToLoggedBotMessage(t) ==
  /\ T(t).reply_to # 0
  /\ \E i \in RowsOf(T(t).chat, T(t).reply_to) : conversation_logs[i].is_bot_message
NoTextCriterion(t) ==
  ~MentionOfHandle(t) /\ ~TextMentionOfBot(t) /\ ~HandleInText(t) /\ ~NameInText(t)

C8_ReplyCriterionIffLogged ==
  \A t \in Tasks :
    Decided(t) /\ NoTextCriterion(t) =>
      (T(t).should_respond = "true" <=> ReplyToLoggedBotMessage(t))

\* C8, amended: the reply criterion is satisfied exactly when the replied-to
\* message was sent by the bot, logged or not; so a reply to a message the
\* log holds as bot-authored always satisfies it.
C8_ReplyCriterionIffBotAuthored ==
  \A t \in Tasks :
    /\ Decided(t) /\ NoTextCriterion(t) =>
         (T(t).should_respond = "true" <=> ReplyToBotMessage(t))
    /\ Decided(t) /\ ReplyToLoggedBotMessage(t) => T(t).should_respond = "true"

\* a reply to a message of the bot that the log does not hold made the bot
\* respond
C8_Witness ==
  \E t \in Tasks :
    /\ Decided(t) /\ NoTextCriterion(t) /\ T(t).should_respond = "true"
    /\ ReplyToBotMessage(t) /\ ~ReplyToLoggedBotMessage(t)

\* the message task t sent is in its chat as a reply of the bot to the
\* message that triggered it
SentAsReply(t) ==
  /\ T(t).sent_id \in 1..Len(chat[T(t).chat])
  /\ chat[T(t).chat][T(t).sent_id].from_user = BotId
  /\ chat[T(t).chat][T(t).sent_id].reply_to = T(t).message_id
\* the log rows that record a response to the message of task t
ResponseRows(t) ==
  {i \in 1..Len(conversation_logs) :
     /\ conversation_logs[i].group_id = T(t).chat
     /\ conversation_logs[i].is_bot_message
     /\ conversation_logs[i].reply_to_message_id = T(t).message_id}

\* C9: a group message's dispatcher result that is not empty is sent as a
\* reply to the triggering message, and only after the send one row is
\* appended for the sent message, with is_bot_message and is_reply set and
\* reply_to_message_id the triggering message's id; when nothing fails,
\* every group message the bot decided to answer ends sent and logged so;
\* when nothing was sent (an empty result included) no bot row is logged.
C9_ResponseSentThenLogged ==
  \A t \in Tasks :
    T(t).kind = "group" =>
      /\ InTrace(t, "send") => T(t).response # NoText /\ SentAsReply(t)
      /\ Before(t, {"send"}, "log_bot")
      /\ InTrace(t, "log_bot") =>
           /\ Cardinality(ResponseRows(t)) = 1
           /\ \A i \in ResponseRows(t) :
                /\ conversation_logs[i].message_id = T(t).sent_id
                /\ conversation_logs[i].user_id = BotId
                /\ conversation_logs[i].is_reply
           /\ RowsOf(T(t).chat, T(t).sent_id) = ResponseRows(t)
      /\ faults = 0 /\ T(t).pc = "done" /\ T(t).should_respond = "true"
           => InTrace(t, "send") /\ InTrace(t, "log_bot")
      /\ ~InTrace(t, "send") => ResponseRows(t) = {}
      /\ T(t).pc = "done" /\ T(t).response = NoText
           => ~InTrace(t, "send") /\ ResponseRows(t) = {}

\* a response to a group message was sent and logged
C9_Witness ==
  \E t \in Tasks :
    /\ T(t).kind = "group" /\ T(t).pc = "done" /\ InTrace(t, "log_bot")
    /\ SentAsReply(t) /\ Cardinality(ResponseRows(t)) = 1

\* the classifier's output, as analyze_intent returned it, carries one of
\* the three intents that have a handler
Classified(t) == T(t).intent_analysis # NoPayload
HasHandledIntent(t) ==
  /\ T(t).intent_analysis.kind = "object"
  /\ T(t).intent_analysis.intent \in {"save_info", "retrieve_info", "summarize"}

\* C10, as stated: whenever the classifier's output carries none of the
\* intents save_info, retrieve_info and summarize (another intent, no
\* intent, a structure that is no object, or text that is no JSON), the
\* dispatcher takes the conversation path and its result is the
\* conversational reply.
C10_UnrecognizedIsConversation ==
  \A t \in Tasks :
    IsMessage(t) /\ Classified(t) /\ ~HasHandledIntent(t) =>
      /\ InTrace(t, "conversation")
      /\ T(t).pc \in {"reply", "log_bot", "done"} =>
           /\ Len(T(t).calls) = 2 /\ T(t).calls[2].op = "generate_response"
           /\ T(t).response.kind \in {"reply", "apology_safety", "apology_generate"}

\* the text task t's dispatcher returned is the confirmation of a save
Confirmed(t) == IsMessage(t) /\ T(t).response.kind = "saved"
\* the fact the confirmation echoes was committed by the task's save
Persisted(t) == T(t).result = "true"

\* C11, as stated: the save_info handler returns the confirmation echoing
\* key and value only when save_user_info has persisted the fact; when the
\* store failed to persist it, the handler returns its apology.
C11_ConfirmationOnlyWhenSaved ==
  \A t \in Tasks :
    /\ Confirmed(t) => Persisted(t)
    /\ IsMessage(t) /\ InTrace(t, "handle_save_info") /\ T(t).result = "false"
         => T(t).response.kind = "apology_save"

\* the classifier's output for task t is a save_info with key and value
SavesFact(t) ==
  /\ IsMessage(t) /\ T(t).intent_analysis.kind = "object"
  /\ T(t).intent_analysis.intent = "save_info"
  /\ T(t).intent_analysis.key # "" /\ T(t).intent_analysis.value # ""
\* task t takes this step
Steps(t) == task'[t] # task[t]
\* the Fact rows of the two tables that differ
ChangedFacts == (user_info' \ user_info) \cup (user_info \ user_info')

\* C12: a step changes the Fact rows only when it is the commit of the
\* save_info handler for a classification that carries both key and value,
\* and then only rows of the sender under that key change; every step of a
\* message classified as retrieve_info, summarize or conversation, or as
\* save_info with key or value missing, leaves every Fact row as it was.
C12_FactsChangeOnlyBySave ==
  [][/\ user_info' # user_info =>
          \E t \in Tasks :
            /\ Steps(t) /\ T(t).pc = "save_commit" /\ SavesFact(t)
            /\ \A i \in ChangedFacts :
                 /\ i.key = T(t).intent_analysis.key
                 /\ \E u \in users : u.id = i.user_id /\ u.telegram_id = T(t).user
            /\ \A i \in user_info' \ user_info : i.value = T(t).intent_analysis.value
     /\ \A t \in Tasks :
          Steps(t) /\ IsMessage(t) /\ ~SavesFact(t) /\ task'[t].kind = T(t).kind
            => user_info' = user_info]_vars

\* a retrieve_info message has been answered with a stored fact
C12_Witness ==
  /\ user_info # {}
  /\ \E t \in Tasks :
       /\ IsMessage(t) /\ T(t).pc = "done" /\ ~SavesFact(t)
       /\ T(t).intent_analysis.intent = "retrieve_info" /\ T(t).response.kind = "info"

\* a store or gateway call failed while the dispatcher was handling the
\* message of task t
DispatcherFailure(t) ==
  \/ InTrace(t, "ai_except")
  \/ InTrace(t, "handle_save_info") /\ T(t).result = "false"
  \/ InTrace(t, "retrieve_failed") \/ InTrace(t, "summarize_fetch_failed")
  \/ T(t).response.kind = "apology_generate"
  \/ T(t).response.a = "apology_summarize"
\* the text the dispatcher returned is one of the fixed apologies (the
\* summary header around the gateway's apology included)
IsApology(text) ==
  \/ text.kind \in {"apology_process", "apology_save", "apology_retrieve",
                    "apology_summarize", "apology_generate"}
  \/ text.kind = "summary" /\ text.a = "apology_summarize"

\* C13, as stated: whenever a store or gateway call fails while the
\* dispatcher handles a message, in the settings read or in any of the four
\* handlers, the text the dispatcher returns is a fixed apology.
C13_FailureGivesApology ==
  \A t \in Tasks :
    IsMessage(t) /\ DispatcherFailure(t) /\ T(t).pc \in {"reply", "log_bot", "done"}
      => IsApology(T(t).response)

\* the messages of the bot in the chat of task t that reply to its message
SentReplies(t) ==
  {i \in 1..Len(chat[T(t).chat]) :
     /\ chat[T(t).chat][i].from_user = BotId
     /\ chat[T(t).chat][i].reply_to = T(t).message_id}

Extracted(t) ==
  /\ T(t).kind = "analyze_intent" /\ T(t).pc \in {"parse_intent", "done"}
  /\ ~T(t).provider_response.raised
\* the provider refused / truncated its answer
Refused(response) ==
  response.candidates = <<>> \/ response.candidates[1].finish_reason = "SAFETY"
Truncated(response) ==
  response.candidates # <<>> /\ response.candidates[1].finish_reason = "MAX_TOKENS"
\* the texts that can be taken out of a response: a part's, or the first
\* candidate's parts together
ExtractableTexts(response) ==
  {strip(response.candidates[c].parts[i]) :
     <<c, i>> \in {ci \in (1..Len(response.candidates)) \X (1..2) :
                     ci[2] <= Len(response.candidates[ci[1]].parts)}} \ {<<>>}
JoinedTexts(response) ==
  IF response.candidates = <<>> THEN {}
  ELSE {strip(JoinedText(response.candidates[1].parts))} \ {<<>>}

\* C15: response extraction tells three outcomes apart, with three distinct
\* results: a refused response (no candidate, or finish reason SAFETY) gives
\* the safety apology even when it carries text; a truncated one (MAX_TOKENS)
\* gives text of the response when any part has text and else the apology
\* for a too long answer; any other response gives its text, or the generic
\* apology when no part has text; and each apology is given in its own case
\* only.
C15_ThreeWayExtraction ==
  \A t \in Tasks :
    Extracted(t) =>
      LET response == T(t).provider_response
          text == T(t).extracted
          some == ExtractableTexts(response) # {}
      IN /\ Cardinality({SafetyApology, LengthApology, EmptyApology}) = 3
         /\ Refused(response) <=> text = SafetyApology
         /\ Truncated(response) /\ ~some <=> text = LengthApology
         /\ ~Refused(response) /\ ~Truncated(response) /\ ~some <=> text = EmptyApology
         /\ ~Refused(response) /\ some
              <=> /\ text.kind = "reply"
                  /\ text.chars \in ExtractableTexts(response) \cup JoinedTexts(response)

\* a truncated response whose text could not be read through response.text
\* gave the partial text of a part
C15_Witness ==
  \E t \in Tasks :
    /\ Extracted(t) /\ Truncated(T(t).provider_response)
    /\ Len(T(t).provider_response.candidates[1].parts) = 2
    /\ T(t).extracted.kind = "reply"
    /\ T(t).extracted.chars = strip(T(t).provider_response.candidates[1].parts[2])

\* analyze_intent, called on its own, has returned for task t
Analyzed(t) == T(t).kind = "analyze_intent" /\ T(t).pc = "done"
\* the structure {"intent": "conversation", ...} and nothing of the text
IsFallback(p) == p.kind = "object" /\ p.intent = "conversation" /\ p.key = "" /\ p.value = ""
\* no token of the text is a JSON value
NoJson(text) ==
  \A i \in 1..Len(text) :
    text[i].t = "payload" => text[i].p.kind \notin {"object", "nonobject"}

\* C16: analyze_intent always returns: the fallback structure with intent
\* conversation when the provider call raised, when response extraction
\* gave an apology, and when the text holds no JSON value; and anything else
\* it returns is a JSON value of the text.  The fallback is one fixed
\* structure, so analysing the same unparseable output again gives the same.
C16_UnparseableGivesFallback ==
  \A t \in Tasks :
    Analyzed(t) =>
      /\ T(t).intent_analysis # NoPayload
      /\ T(t).provider_response.raised => IsFallback(T(t).intent_analysis)
      /\ ~T(t).provider_response.raised =>
           /\ T(t).extracted.kind # "reply" => IsFallback(T(t).intent_analysis)
           /\ NoJson(ResponseText(T(t).extracted)) => IsFallback(T(t).intent_analysis)
           /\ ~IsFallback(T(t).intent_analysis) =>
                \E i \in 1..Len(T(t).extracted.chars) :
                  /\ T(t).extracted.chars[i] = PayloadTok(T(t).intent_analysis)
                  /\ T(t).intent_analysis.kind \in {"object", "nonobject"}
      /\ IsFallback(T(t).intent_analysis) => T(t).intent_analysis = FallbackIntent

\* the provider's text was a fenced text that is no JSON, and analyze_intent
\* returned the fallback
C16_Witness ==
  \E t \in Tasks :
    /\ Analyzed(t) /\ ~T(t).provider_response.raised
    /\ T(t).extracted = ProviderReply(Fenced(<<Fence, JsonTag>>, Garbage))
    /\ T(t).intent_analysis = FallbackIntent

\* C17, as stated: a JSON object wrapped in a fence, the opening marker
\* with or without the language tag, is parsed to the same structure as the
\* object alone.
C17_FencedParsesAsBare ==
  \A t \in Tasks :
    Analyzed(t) /\ ~T(t).provider_response.raised /\ T(t).extracted.kind = "reply" =>
      \A o \in GatewayObjects :
        T(t).extracted.chars \in {Fenced(<<Fence, JsonTag>>, o), Fenced(<<Fence>>, o)}
          => T(t).intent_analysis = o

\* C18: every provider call made for intent classification or for
\* summarization is made at the fixed temperature 0.3 (3 tenths), whatever
\* the group's temperature is; the call for the conversational reply is
\* made at the temperature of the group's settings row.
C18_FixedLowTemperature ==
  \A t \in Tasks :
    IsMessage(t) =>
      \A i \in 1..Len(T(t).calls) :
        /\ T(t).calls[i].op \in {"analyze_intent", "summarize_conversation"}
             => T(t).calls[i].temperature = 3
        /\ T(t).calls[i].op = "generate_response"
             => /\ SettingsRows(T(t).chat) # {}
                /\ T(t).calls[i].temperature = TheRow(SettingsRows(T(t).chat)).temperature
        /\ T(t).calls[i].op \in {"analyze_intent", "summarize_conversation", "generate_response"}

\* in a group whose temperature was set to 0.9, a message was classified at
\* 0.3 and answered at 0.9
C18_Witness ==
  \E t \in Tasks :
    /\ T(t).kind = "group" /\ T(t).settings.temperature = 9 /\ Len(T(t).calls) = 2
    /\ T(t).calls[1] = Call("analyze_intent", 3, "")
    /\ T(t).calls[2].op = "generate_response" /\ T(t).calls[2].temperature = 9

\* the dispatcher has returned from _handle_retrieve_info for task t, which
\* had a key to look up
Retrieved(t) ==
  /\ IsMessage(t) /\ T(t).intent_analysis.kind = "object"
  /\ T(t).intent_analysis.intent = "retrieve_info" /\ T(t).intent_analysis.key # ""
  /\ T(t).pc \in {"reply", "log_bot", "done"}
\* the facts stored under the key for the users that carry the username
FactsOf(username, key) ==
  {i \in user_info : i.key = key /\
     \E u \in users : u.username = username /\ u.id = i.user_id}

\* C19, as stated: retrieve_info returns the not-found message when the
\* classification carries no target username, when no user carries the
\* target username, when several users carry it, and when the one user who
\* carries it has no fact under the key.
C19_RetrieveNotFound ==
  \A t \in Tasks :
    Retrieved(t) =>
      LET target == T(t).intent_analysis.target_username
          not_found_case ==
            \/ target = ""
            \/ Cardinality(UsersByUsername(target)) # 1
            \/ FactsOf(target, T(t).key) = {}
      IN not_found_case => T(t).response = BotText("not_found", target, "")

\* the positions inside the operations of the store
StoreOperationPcs ==
  {"goc_select", "goc_commit",                              \* get_or_create_user
   "save_select_user", "save_select_info", "save_commit",   \* save_user_info
   "retrieve_info",                                         \* get_user_info_by_username
   "gs_select", "gs_insert",                                \* get_group_settings
   "update_commit",                                         \* update_group_settings
   "log_user", "log_bot",                                   \* log_conversation
   "get_context", "summarize_fetch"}                        \* get_recent_messages
\* the except clauses of the callers of the store, and no clause at all
CallerExcepts == {"group_except", "ai_except", "status_except", "unhandled"}
\* the step of task t lands in an except clause of a caller
Propagates(t) ==
  /\ Len(task'[t].trace) = Len(T(t).trace) + 1
  /\ task'[t].trace[Len(task'[t].trace)] \in CallerExcepts

\* C20, as stated: every operation of the store reports a failure through
\* its result (False, None or an empty list); no step taken inside an
\* operation of the store lands in an except clause of its caller.
C20_StoreNeverRaises ==
  [][\A t \in Tasks : T(t).pc \in StoreOperationPcs => ~Propagates(t)]_vars

\* update_group_settings has committed for the callback query of task t
AppliedUpdate(t) == T(t).kind = "callback" /\ InTrace(t, "updated")
IsAdmin(c, u) == ChatMemberStatus(c, u) \in {"administrator", "creator"}

\* C21, as stated: update_group_settings is applied to a group's settings
\* only in a handler whose user is administrator or creator of the group.
C21_UpdateOnlyByAdmin ==
  \A t \in Tasks : AppliedUpdate(t) => IsAdmin(T(t).chat, T(t).user)

\* task t is at the commit of update_group_settings(chat, temperature = ...)
\* and the commit succeeds
CommitsTemperature(t) ==
  /\ T(t).pc = "update_commit" /\ T(t).update_data.key = "temperature"
  /\ task'[t].result = "true"
\* what get_group_settings(group_id) finds after the step
SettingsRowsAfter(group_id) == {s \in group_settings' : s.group_id = group_id}

\* C22: when update_group_settings(group, temperature = x) returns True, the
\* row get_group_settings(group) then reads carries exactly x as temperature
\* and, in every other column (model, tone, context size, active flag), the
\* value the row had before the update.
C22_PartialUpdateRoundTrip ==
  [][\A t \in Tasks :
       CommitsTemperature(t) =>
         LET before == TheRow(SettingsRows(T(t).chat))
         IN SettingsRowsAfter(T(t).chat) =
              {[before EXCEPT !.temperature = T(t).update_data.ival]}]_vars
\* a temperature update has been applied to a row whose tone an earlier
\* update had changed
C22_Witness ==
  \E t \in Tasks :
    /\ AppliedUpdate(t) /\ T(t).update_data.key = "temperature"
    /\ \E s \in SettingsRows(T(t).chat) :
         /\ s.temperature = T(t).update_data.ival /\ s.temperature # config_default_temperature
         /\ s.tone # config_default_tone

\* an access of group g has returned to its caller: get_group_settings
\* returned the settings, or update_group_settings returned True
Accessed(g) ==
  \E t \in Tasks :
    /\ T(t).chat = g /\ T(t).pc = "done"
    /\ \/ T(t).kind = "get_group_settings" /\ T(t).settings # NoSettings
       \/ T(t).kind = "update_group_settings" /\ T(t).result = "true"
\* the step creates the row of group g
CreatesRow(g) == SettingsRows(g) = {} /\ SettingsRowsAfter(g) # {}
\* the step changes the row of group g
ChangesRow(g) == SettingsRows(g) # {} /\ SettingsRowsAfter(g) # SettingsRows(g)

\* no group has two rows, and a group whose access has returned has one
OneSettingsRowPerGroup ==
  \A g \in Groups :
    /\ Cardinality(SettingsRows(g)) <= 1
    /\ Accessed(g) => Cardinality(SettingsRows(g)) = 1
\* a row is created with the configured defaults; an existing row changes
\* only at the commit of an update_group_settings, to the same row with the
\* named column replaced
SettingsLifecycle ==
  \A g \in Groups :
    /\ CreatesRow(g) => SettingsRowsAfter(g) = {GroupSettings(g)}
    /\ ChangesRow(g) =>
         \E t \in Tasks :
           /\ T(t).pc = "update_commit" /\ T(t).chat = g /\ Steps(t)
           /\ SettingsRowsAfter(g) =
                {[TheRow(SettingsRows(g)) EXCEPT
                    ![T(t).update_data.key] = UpdateValue(T(t).update_data)]}

\* C23: under every interleaving of get_group_settings and
\* update_group_settings calls, no group ever has two GroupSettings rows
\* and a group whose access has returned has exactly one; the first access
\* creates the row with the configured defaults, and no later access
\* creates a second row or puts the defaults back: the row changes only
\* by the column an update names.
C23_OneRowCreatedOnce == []OneSettingsRowPerGroup /\ [][SettingsLifecycle]_vars
\* two calls for one unseen group met at the INSERT: one created the row,
\* the other got the IntegrityError, and an update has changed the row
C23_Witness ==
  /\ faults = 0
  /\ \E s \in Tasks, t \in Tasks :
       /\ s # t /\ T(s).chat = T(t).chat
       /\ T(s).kind = "update_group_settings" /\ T(s).result = "true"
       /\ T(t).kind = "get_group_settings" /\ InTrace(t, "unhandled")
       /\ Cardinality(SettingsRows(T(t).chat)) = 1
       /\ TheRow(SettingsRows(T(t).chat)) # GroupSettings(T(t).chat)

\* the dispatcher took the summarize branch for task t and the read of the
\* messages has returned
Summarizes(t) ==
  /\ IsMessage(t) /\ InTrace(t, "handle_summarize")
  /\ T(t).pc \in {"summarize_call", "reply", "log_bot", "done"}
\* the count the classification asks for, 20 when it names none
RequestedCount(t) ==
  IF T(t).intent_analysis.message_count = -1 THEN 20
  ELSE T(t).intent_analysis.message_count
\* the calls of the gateway's summarize operation task t has made
SummarizeCalls(t) ==
  {i \in 1..Len(T(t).calls) : T(t).calls[i].op = "summarize_conversation"}

\* C24: the summarize handler asks the store for the message_count
\* (default 20) most recent messages of the chat; when the read gives no
\* message the handler returns the nothing-to-summarize text and never
\* calls the gateway's summarize operation; otherwise it calls it exactly
\* once and returns what it gave under the summary header.
C24_SummarizeBranches ==
  \A t \in Tasks :
    Summarizes(t) =>
      /\ T(t).pc \in {"summarize_call", "reply"} =>
           \/ T(t).messages = get_recent_messages(T(t).chat, RequestedCount(t))
           \/ T(t).messages = <<>> /\ InTrace(t, "summarize_fetch_failed")
      /\ T(t).messages = <<>> =>
           /\ T(t).response = BotText("nothing_to_summarize", "", "")
           /\ SummarizeCalls(t) = {}
      /\ T(t).messages # <<>> /\ T(t).pc # "summarize_call" =>
           /\ Cardinality(SummarizeCalls(t)) = 1
           /\ T(t).response.kind = "summary"
\* a summary of the one latest message of a group that has logged two
C24_Witness ==
  \E t \in Tasks :
    /\ Summarizes(t) /\ T(t).pc = "reply"
    /\ RequestedCount(t) = 1 /\ Len(T(t).messages) = 1
    /\ Len(JoinedRows(T(t).chat)) = 2
    /\ T(t).response.kind = "summary"

\* _build_context_string has returned for task t
BuiltContext(t) == T(t).kind = "build_context_string" /\ T(t).pc = "done"
\* the positions of the supplied context that are among its last seven and
\* carry a text
UsedEntries(context_messages) ==
  {i \in 1..Len(context_messages) :
     i > Len(context_messages) - 7 /\ context_messages[i].message_text # <<>>}
\* the k-th smallest position of a set of positions
Kth(positions, k) ==
  CHOOSE i \in positions : Cardinality({j \in positions : j < i}) = k - 1
\* the lines of the positions used, oldest first
ExpectedLines(context_messages) ==
  [k \in 1..Cardinality(UsedEntries(context_messages)) |->
     LET msg == context_messages[Kth(UsedEntries(context_messages), k)]
     IN <<"[">> \o msg.timestamp \o <<"]", " ">> \o msg.username
          \o <<":", " ">> \o msg.message_text]
\* the number of lines of a string
LineCount(str) == Cardinality({i \in 1..Len(str) : str[i] = "\n"}) + 1

\* C25: the context string is made of the entries of the supplied context
\* that are among its last 7 and have a text, whatever the length of the
\* context: one line '[timestamp] username: text' per such entry, oldest
\* first, at most 7 lines, and no line for an entry whose text is empty.
C25_ContextString ==
  \A t \in Tasks :
    BuiltContext(t) =>
      LET lines == ExpectedLines(T(t).context_messages)
      IN IF lines = <<>> THEN T(t).context_str = NoContextAvailable
         ELSE /\ T(t).context_str = JoinLines(lines)
              /\ LineCount(T(t).context_str) = Len(lines)
              /\ Len(lines) <= 7
\* a context of eight entries: the oldest has a text and is left out, one of
\* the last seven has none and is omitted
C25_Witness ==
  \E t \in Tasks :
    /\ BuiltContext(t) /\ Len(T(t).context_messages) = 8
    /\ T(t).context_messages[1].message_text # <<>>
    /\ \E i \in 2..8 : T(t).context_messages[i].message_text = <<>>
    /\ LineCount(T(t).context_str) = 6

\* C26: every step of the router leaves each row of the conversation log in
\* its place and unmodified: the log after the step is the log before it,
\* with new rows, if any, appended at its end.
C26_LogAppendOnly ==
  [][/\ Len(conversation_logs') >= Len(conversation_logs)
     /\ SubSeq(conversation_logs', 1, Len(conversation_logs)) = conversation_logs]_vars
\* the log of a group holds a message, the bot's reply to it and a later
\* message
C26_Witness ==
  /\ Len(conversation_logs) = 3
  /\ \A i \in 1..3 : conversation_logs[i].group_id = "g1"
  /\ conversation_logs[2].is_bot_message /\ ~conversation_logs[3].is_bot_message

\* the rows the log holds as bot-authored for group g
BotRows(g) ==
  {i \in 1..Len(conversation_logs) :
     conversation_logs[i].group_id = g /\ conversation_logs[i].is_bot_message}
\* get_recent_messages(g, limit) returns the message of log row i
Returned(g, limit, i) ==
  \E k \in 1..Len(get_recent_messages(g, limit)) :
    /\ get_recent_messages(g, limit)[k].message_id = conversation_logs[i].message_id
    /\ get_recent_messages(g, limit)[k].is_bot_message

\* C27, as stated: once the bot's reply to a group message is in the log,
\* get_recent_messages for the group with a limit as large as the log
\* returns that reply among the messages.
C27_BotRepliesInContext ==
  \A g \in Groups : \A i \in BotRows(g) : Returned(g, Len(conversation_logs), i)

\* two messages of one user in one group have both been handled, no
\* statement having failed for a cause outside the program
BothHandled(s, t) ==
  /\ s # t /\ T(s).kind = "group" /\ T(t).kind = "group"
  /\ T(s).chat = T(t).chat /\ T(s).user = T(t).user
  /\ T(s).pc = "done" /\ T(t).pc = "done"
  /\ faults = 0

\* C28, as stated: when two group messages of one user who had no User row
\* are handled concurrently, the log ends up holding both messages and the
\* user has exactly one User row.
C28_BothLoggedOneUser ==
  \A s \in Tasks, t \in Tasks :
    BothHandled(s, t) =>
      /\ IncomingLogged(s) /\ IncomingLogged(t)
      /\ Cardinality(UsersByTelegramId(T(t).user)) = 1

\* the newest entry of the context fetched for task t is the message that
\* task t handles
ContextEndsWithTrigger(t) ==
  /\ T(t).context_messages # <<>>
  /\ LET newest == T(t).context_messages[Len(T(t).context_messages)]
     IN /\ newest.message_id = T(t).message_id /\ newest.user_id = T(t).user
        /\ newest.message_text = UserText(T(t).text) /\ ~newest.is_bot_message

PressedBack(t) == T(t).kind = "callback" /\ T(t).data = <<"setting", "back">>

\* C30, as stated: a callback query with the data 'setting_back' shows the
\* top-level settings menu again and is never answered as an unknown
\* setting.
C30_BackShowsMenu ==
  \A t \in Tasks :
    PressedBack(t) /\ T(t).pc = "done" =>
      /\ InTrace(t, "show_settings_menu_edit")
      /\ ~InTrace(t, "unknown_setting")
====
